---- MODULE Spec2Model ----
(***************************************************************************)
(* Model of GroupProject.ino: the four-mode teaching kit firmware.         *)
(*                                                                         *)
(* The firmware is one cooperative loop: handleModeSwitch(), then the      *)
(* function of the current mode, then delay(100).  The model follows the   *)
(* loop position in pc, keeps the globals of the sketch as variables, and  *)
(* keeps the two output devices (the 16x2 display and the latched LED      *)
(* byte) as state.  The world outside the board - the mode button with its *)
(* contact bounce, the eight switch lines, the two analog lines - changes  *)
(* while the loop sleeps.  Time is counted in milliseconds and advances in *)
(* steps of Quantum; code between two sleeps takes no time.                *)
(***************************************************************************)
EXTENDS Integers, Sequences, FiniteSets, TLC

VARIABLES
  pc,                \* position of loop(): "switch", "mode", "pause", "resume", "sleep"
  wait,              \* milliseconds left of the delay() in progress
  now,               \* millis(), an unsigned long
  uptime,            \* ms since setup() returned
  currentMode,       \* byte currentMode
  lastButtonState,   \* bool lastButtonState
  lastDebounce,      \* unsigned long lastDebounce
  buttonPressed,     \* static bool buttonPressed (handleModeSwitch)
  quizTarget,        \* byte quizTarget
  questionDisplayed, \* bool questionDisplayed
  lcd,               \* the display: cells of both rows and the cursor
  leds,              \* the byte latched in the 74HC595
  button,            \* electrical level of modeButtonPin
  switchLines,       \* electrical level of switchPins[0..7]
  potLevel,          \* analogRead(potPin)
  sensorLevel,       \* analogRead(analogSensorPin)
  logicType,         \* the gate index logicGateMode computed last
  held,              \* the user's finger is on the mode button
  sinceEdge,         \* ms since the finger went down or up (capped)
  lowFor,            \* ms the button level has been LOW without a break (capped)
  presses,           \* confirmed-press events so far
  evInCycle,         \* confirmed-press events since the finger last went down
  evInPress,         \* confirmed-press events since the level last went LOW
  pauses,            \* 1-second success pauses begun so far
  draws,             \* quiz targets drawn so far
  drawnAt,           \* the value of presses when quizTarget was drawn
  sampled,           \* the mode function that ran last and the inputs it met
  sinceChange        \* ms since handleModeSwitch last saw the reading change (capped)

vars == <<pc, wait, now, uptime, currentMode, lastButtonState, lastDebounce,
          buttonPressed, quizTarget, questionDisplayed, lcd, leds, button,
          switchLines, potLevel, sensorLevel, logicType, held, sinceEdge,
          lowFor, presses, evInCycle, evInPress, pauses, draws, drawnAt,
          sampled, sinceChange>>


----------------------------------------------------------------------------
\* Program constants

HIGH == TRUE
LOW == FALSE

totalModes == 4
debounceDelay == 50
LoopDelay == 100
SuccessPause == 1000
LcdCols == 16
LcdRows == 2
AdcMax == 1023
HalfMod == 65536
ByteMod == 256
IntBits == 16

GATE_AND == 0
GATE_OR == 1
GATE_XOR == 2
GATE_XNOR == 3

\* Bounds of the model
MaxTime == 1500     \* Spec stops the clock here (ms since setup)
BenchTime == 1100   \* SpecBench stops the clock here (ms since setup)
MaxBounce == 25     \* contact bounce lasts less than this after an edge (ms)

\* Time resolution: half the debounce window
Quantum == debounceDelay \div 2

----------------------------------------------------------------------------
\* Integer helpers in the widths of the target (byte, 16-bit int)

Min(a, b) == IF a < b THEN a ELSE b

RECURSIVE Pow2(_)
Pow2(n) == IF n = 0 THEN 1 ELSE 2 * Pow2(n - 1)

Bit(x, i) == (x \div Pow2(i)) % 2

RECURSIVE BitAnd(_, _)
BitAnd(a, b) ==
  IF a = 0 \/ b = 0 THEN 0
  ELSE (IF a % 2 = 1 /\ b % 2 = 1 THEN 1 ELSE 0) + 2 * BitAnd(a \div 2, b \div 2)

RECURSIVE BitOr(_, _)
BitOr(a, b) ==
  IF a = 0 THEN b
  ELSE IF b = 0 THEN a
  ELSE (IF a % 2 = 1 \/ b % 2 = 1 THEN 1 ELSE 0) + 2 * BitOr(a \div 2, b \div 2)

RECURSIVE BitXor(_, _)
BitXor(a, b) ==
  IF a = 0 THEN b
  ELSE IF b = 0 THEN a
  ELSE (IF a % 2 # b % 2 THEN 1 ELSE 0) + 2 * BitXor(a \div 2, b \div 2)

\* ~x on an int of IntBits bits, as an unsigned bit pattern
BitNot(x) == (Pow2(IntBits) - 1) - x

ToByte(x) == x % ByteMod

\* An unsigned long is kept as two 16-bit halves, so that it wraps where the
\* counter of the target wraps
ULong(n) == [hi |-> (n \div HalfMod) % HalfMod, lo |-> n % HalfMod]

ULongAdd(a, n) ==
  [hi |-> (a.hi + (a.lo + n) \div HalfMod) % HalfMod, lo |-> (a.lo + n) % HalfMod]

\* a - b in unsigned long arithmetic
ULongSub(a, b) ==
  [hi |-> (a.hi - b.hi - (IF a.lo < b.lo THEN 1 ELSE 0)) % HalfMod,
   lo |-> (a.lo - b.lo) % HalfMod]

\* a > n for a small n
ULongGreater(a, n) == a.hi > 0 \/ a.lo > n

\* Arduino's long map(x, in_min, in_max, out_min, out_max); all operands here
\* are non-negative, so C's truncating division is \div
Map(x, inMin, inMax, outMin, outMax) ==
  ((x - inMin) * (outMax - outMin)) \div (inMax - inMin) + outMin

----------------------------------------------------------------------------
\* Text: a string is a sequence of one-character strings

Blank == " "
DigitChars == <<"0", "1", "2", "3", "4", "5", "6", "7", "8", "9",
                "A", "B", "C", "D", "E", "F">>

\* Print::print(n, base): digits from the least significant one upwards
RECURSIVE PrintNumber(_, _)
PrintNumber(n, base) ==
  IF n < base THEN <<DigitChars[n + 1]>>
  ELSE Append(PrintNumber(n \div base, base), DigitChars[(n % base) + 1])

Spaces(n) == [i \in 1..n |-> Blank]

TxtModeManual == <<"M", "o", "d", "e", ":", " ", "M", "a", "n", "u", "a", "l">>
TxtModeQuiz == <<"M", "o", "d", "e", ":", " ", "Q", "u", "i", "z">>
TxtModeLogic == <<"M", "o", "d", "e", ":", " ", "L", "o", "g", "i", "c">>
TxtModeAdc == <<"M", "o", "d", "e", ":", " ", "A", "D", "C">>
TxtDec == <<"D", "E", "C", ":">>
TxtHex == <<"H", "E", "X", ":", "0", "x">>
TxtSpHex == <<" ", "H", "E", "X", ":", "0", "x">>
TxtCorrect == <<"C", "o", "r", "r", "e", "c", "t", "!">>
TxtIncorrect == <<"I", "n", "c", "o", "r", "r", "e", "c", "t">> \o Spaces(6)

logicNames == << <<"A", "N", "D">>, <<"O", "R">>, <<"X", "O", "R">>,
                 <<"X", "N", "O", "R">> >>

\* What logicNames[i] can print when i is past the end of the array: the
\* bytes found there are not defined by the program
StrayNames == { <<>>, <<"?">>, <<"?", "?", "?", "?", "?", "?">> }

----------------------------------------------------------------------------
\* The display: LcdRows x LcdCols cells and a cursor; a write overwrites
\* forward from the cursor, cells past the last column are not visible

BlankRow == [c \in 1..LcdCols |-> Blank]

LcdClear(d) == [cells |-> [r \in 1..LcdRows |-> BlankRow], col |-> 0, row |-> 0]

LcdSetCursor(d, c, r) == [d EXCEPT !.col = c, !.row = r]

LcdPrint(d, text) ==
  [d EXCEPT
     !.cells[d.row + 1] =
        [c \in 1..LcdCols |->
           IF c - 1 >= d.col /\ c - 1 < d.col + Len(text)
             THEN text[c - d.col]
             ELSE d.cells[d.row + 1][c]],
     !.col = d.col + Len(text)]

Row(d, r) == d.cells[r + 1]

----------------------------------------------------------------------------
\* Inputs the environment chooses from in Spec

LinesOf(v) == [i \in 0..7 |-> IF Bit(v, i) = 1 THEN LOW ELSE HIGH]

\* Positions of the eight switches, the knob and the sensor the user moves
\* between in Spec, and the targets random(0, 256) returns in Spec
Settings == { [sw |-> 0, pot |-> 600, sensor |-> 512],
              [sw |-> 202, pot |-> AdcMax, sensor |-> AdcMax] }
QuizTargets == {5, 202}

LowCap == debounceDelay + Quantum

\* sinceChange is counted up to here
ElapsedCap == 2 * LoopDelay

----------------------------------------------------------------------------
\* Bit Sampler: for (i = 0; i < n; i++) if (digitalRead(switchPins[first + i])
\* == LOW) value |= (1 << i);

\* Mutant: a line that reads HIGH counts as 1
RECURSIVE SampleBitsActiveHigh(_, _, _)
SampleBitsActiveHigh(lines, first, n) ==
  IF n = 0 THEN 0
  ELSE BitOr(SampleBitsActiveHigh(lines, first, n - 1),
             IF lines[first + n - 1] = HIGH THEN Pow2(n - 1) ELSE 0)

RECURSIVE SampleBits(_, _, _)
SampleBits(lines, first, n) ==
  IF n = 0 THEN 0
  ELSE BitOr(SampleBits(lines, first, n - 1),
             IF lines[first + n - 1] = LOW THEN Pow2(n - 1) ELSE 0)

\* digitalWrite(latchPin, LOW); shiftOut(..., LSBFIRST, value);
\* digitalWrite(latchPin, HIGH): the sink shows the byte pushed
ShiftOut(value) == ToByte(value)

----------------------------------------------------------------------------
\* handleModeSwitch

\* Mutant: a changed reading does not restart the debounce timer
DebounceNoReset(reading, last, ld, t) == ld

DebounceStart(reading, last, ld, t) == IF reading # last THEN t ELSE ld

\* Mutant: millis() > lastDebounce + debounceDelay, a comparison of
\* counter values instead of a difference
StableNoWrap(t, ld) ==
  LET due == ULongAdd(ld, debounceDelay)
  IN t.hi > due.hi \/ (t.hi = due.hi /\ t.lo > due.lo)

\* Mutant: the first sample of a new level already counts as stable
StableAtOnce(t, ld) == TRUE

Stable(t, ld) == ULongGreater(ULongSub(t, ld), debounceDelay)

Confirmed(reading, stable, bp) == stable /\ reading = LOW /\ ~bp

\* Mutant: the assignment buttonPressed = true is missing
LatchForgotten(reading, stable, bp) ==
  IF stable /\ reading = HIGH THEN FALSE ELSE bp

\* Mutant: any released sample clears the latch, stable or not
LatchClearedEarly(reading, stable, bp) ==
  IF reading = HIGH THEN FALSE
  ELSE IF stable THEN TRUE
  ELSE bp

LatchAfter(reading, stable, bp) ==
  IF ~stable THEN bp
  ELSE IF reading = HIGH THEN FALSE
  ELSE TRUE

\* Mutant: the mode advances by two
NextModeSkip(m) == (m + 2) % totalModes

NextMode(m) == (m + 1) % totalModes

\* Mutant: the mode advances on every call
ModeAfterAlways(m, fire) == (m + 1) % totalModes

\* currentMode when handleModeSwitch returns
ModeAfter(m, fire) == IF fire THEN NextMode(m) ELSE m

\* Mutant: the mode change leaves the question flag alone
QuestionAfterKept(q, fire) == q

\* Mutant: the mode change sets the question flag instead of clearing it
QuestionAfterSet(q, fire) == IF fire THEN TRUE ELSE q

\* questionDisplayed = false, inside the branch of a confirmed press
QuestionAfter(q, fire) == IF fire THEN FALSE ELSE q

ModeBanner(m) ==
  CASE m = 0 -> TxtModeManual
    [] m = 1 -> TxtModeQuiz
    [] m = 2 -> TxtModeLogic
    [] m = 3 -> TxtModeAdc
    [] OTHER -> <<>>

ShowBanner(d, m) == LcdPrint(LcdSetCursor(LcdClear(d), 0, 0), ModeBanner(m))

HandleModeSwitch ==
  /\ pc = "switch"
  /\ LET reading == button
         ld == DebounceStart(reading, lastButtonState, lastDebounce, now)
         stable == Stable(now, ld)
         fire == Confirmed(reading, stable, buttonPressed)
     IN /\ lastDebounce' = ld
        /\ buttonPressed' = LatchAfter(reading, stable, buttonPressed)
        /\ currentMode' = ModeAfter(currentMode, fire)
        /\ questionDisplayed' = QuestionAfter(questionDisplayed, fire)
        /\ lcd' = IF fire THEN ShowBanner(lcd, NextMode(currentMode)) ELSE lcd
        /\ presses' = IF fire THEN presses + 1 ELSE presses
        /\ evInCycle' = IF fire THEN evInCycle + 1 ELSE evInCycle
        /\ evInPress' = IF fire THEN evInPress + 1 ELSE evInPress
        /\ lastButtonState' = reading
  /\ sinceChange' = IF button # lastButtonState THEN 0 ELSE sinceChange
  /\ pc' = "mode"
  /\ UNCHANGED <<wait, now, uptime, quizTarget, leds, button, switchLines, potLevel,
                 sensorLevel, logicType, held, sinceEdge, lowFor, pauses, draws,
                 drawnAt, sampled>>

----------------------------------------------------------------------------
\* loop(): the if / else-if chain that picks the mode function

\* Mutant: the chain tests the mode one step ahead
DispatchedAhead(m) == currentMode = (m + 1) % totalModes

Dispatched(m) == currentMode = m

\* What a mode function leaves on record: which one ran, and the inputs
\* that were on the pins when it ran
Ran(m) ==
  [mode |-> m, lines |-> switchLines, pot |-> potLevel, sensor |-> sensorLevel]

\* No mode function has run yet
NoSample == [mode |-> totalModes, lines |-> [i \in 0..7 |-> HIGH], pot |-> 0, sensor |-> 0]

----------------------------------------------------------------------------
\* Mode 0: manualMode

\* Mutant: no leading zero below 0x10
HexByteNoPad(v) == PrintNumber(v, 16)

HexByte(v) == (IF v < 16 THEN <<"0">> ELSE <<>>) \o PrintNumber(v, 16)

ManualFrame(d, state) ==
  LET d1 == LcdPrint(LcdPrint(LcdPrint(LcdSetCursor(d, 0, 0), TxtDec),
                              PrintNumber(state, 10)), Spaces(6))
  IN LcdPrint(LcdPrint(LcdPrint(LcdSetCursor(d1, 0, 1), TxtHex),
                       HexByte(state)), Spaces(3))

ManualMode ==
  /\ pc = "mode"
  /\ Dispatched(0)
  /\ sampled' = Ran(0)
  /\ LET state == SampleBits(switchLines, 0, 8)
     IN /\ leds' = ShiftOut(state)
        /\ lcd' = ManualFrame(lcd, state)
  /\ pc' = "sleep"
  /\ wait' = LoopDelay
  /\ UNCHANGED <<now, uptime, sinceChange, currentMode, lastButtonState, lastDebounce, buttonPressed,
                 quizTarget, questionDisplayed, button, switchLines, potLevel,
                 sensorLevel, logicType, held, sinceEdge, lowFor, presses,
                 evInCycle, evInPress, pauses, draws, drawnAt>>

----------------------------------------------------------------------------
\* Mode 1: quizMode

\* Mutant: the hexadecimal line without its leading zero
QuestionFrameNoPad(d, target) ==
  LET d1 == LcdPrint(LcdPrint(LcdSetCursor(LcdClear(d), 0, 0), TxtDec),
                     PrintNumber(target, 10))
  IN LcdPrint(LcdPrint(LcdSetCursor(d1, 0, 1), TxtHex), PrintNumber(target, 16))

QuestionFrame(d, target) ==
  LET d1 == LcdPrint(LcdPrint(LcdSetCursor(LcdClear(d), 0, 0), TxtDec),
                     PrintNumber(target, 10))
  IN LcdPrint(LcdPrint(LcdSetCursor(d1, 0, 1), TxtHex), HexByte(target))

CorrectFrame(d) == LcdPrint(LcdSetCursor(LcdClear(d), 0, 0), TxtCorrect)

\* Mutant: the display is cleared first, as on a match
IncorrectFrameCleared(d) ==
  LcdPrint(LcdSetCursor(LcdClear(d), 0, 1), TxtIncorrect)

IncorrectFrame(d) == LcdPrint(LcdSetCursor(d, 0, 1), TxtIncorrect)

\* Mutant: if (userInput = quizTarget), an assignment for the comparison
MatchesAssign(userInput, target) == target # 0

Matches(userInput, target) == userInput = target

\* if (!questionDisplayed) { ... return; }
QuizAsk(target) ==
  /\ ~questionDisplayed
  /\ quizTarget' = target
  /\ lcd' = QuestionFrame(lcd, target)
  /\ questionDisplayed' = TRUE
  /\ draws' = draws + 1
  /\ drawnAt' = presses
  /\ pc' = "sleep"
  /\ wait' = LoopDelay
  /\ UNCHANGED <<leds, pauses>>

\* the rest of quizMode, up to and into delay(1000) on a match
QuizJudge ==
  /\ questionDisplayed
  /\ LET userInput == SampleBits(switchLines, 0, 8)
     IN /\ leds' = ShiftOut(userInput)
        /\ IF Matches(userInput, quizTarget)
             THEN /\ lcd' = CorrectFrame(lcd)
                  /\ pc' = "pause"
                  /\ wait' = SuccessPause
                  /\ pauses' = pauses + 1
             ELSE /\ lcd' = IncorrectFrame(lcd)
                  /\ pc' = "sleep"
                  /\ wait' = LoopDelay
                  /\ pauses' = pauses
  /\ UNCHANGED <<quizTarget, questionDisplayed, draws, drawnAt>>

\* quizMode with random(0, 256) drawing from `targets`
QuizModeFrom(targets) ==
  /\ pc = "mode"
  /\ Dispatched(1)
  /\ sampled' = Ran(1)
  /\ \/ \E target \in targets : QuizAsk(target)
     \/ QuizJudge
  /\ UNCHANGED <<now, uptime, sinceChange, currentMode, lastButtonState, lastDebounce, buttonPressed,
                 button, switchLines, potLevel, sensorLevel, logicType, held,
                 sinceEdge, lowFor, presses, evInCycle, evInPress>>

QuizMode == QuizModeFrom(QuizTargets)

\* after delay(1000): questionDisplayed = false; quizMode returns
QuizResume ==
  /\ pc = "resume"
  /\ questionDisplayed' = FALSE
  /\ pc' = "sleep"
  /\ wait' = LoopDelay
  /\ UNCHANGED <<now, uptime, sinceChange, currentMode, lastButtonState, lastDebounce, buttonPressed,
                 quizTarget, lcd, leds, button, switchLines, potLevel,
                 sensorLevel, logicType, held, sinceEdge, lowFor, presses,
                 evInCycle, evInPress, pauses, draws, drawnAt, sampled>>

----------------------------------------------------------------------------
\* Mode 2: logicGateMode

GateIndex(potValue) == ToByte(Map(potValue, 0, AdcMax, 0, 4))

\* Mutant: XNOR without the mask & 0x0F
GateResultUnmasked(t, inputA, inputB) ==
  CASE t = GATE_AND -> ToByte(BitAnd(inputA, inputB))
    [] t = GATE_OR -> ToByte(BitOr(inputA, inputB))
    [] t = GATE_XOR -> ToByte(BitXor(inputA, inputB))
    [] t = GATE_XNOR -> ToByte(BitNot(BitXor(inputA, inputB)))
    [] OTHER -> 0

GateResult(t, inputA, inputB) ==
  CASE t = GATE_AND -> ToByte(BitAnd(inputA, inputB))
    [] t = GATE_OR -> ToByte(BitOr(inputA, inputB))
    [] t = GATE_XOR -> ToByte(BitXor(inputA, inputB))
    [] t = GATE_XNOR -> ToByte(BitAnd(BitNot(BitXor(inputA, inputB)), 15))
    [] OTHER -> 0

\* logicNames[logicType]: inside the array the name, past its end anything
GateNames(t) == IF t < Len(logicNames) THEN {logicNames[t + 1]} ELSE StrayNames

\* for (i = 3; i >= 0; i--) lcd.print((x >> i) & 1);
BinaryDigits(x) ==
  PrintNumber(Bit(x, 3), 10) \o PrintNumber(Bit(x, 2), 10)
    \o PrintNumber(Bit(x, 1), 10) \o PrintNumber(Bit(x, 0), 10)

\* Mutant: the operands in the order of the header comment, AAAA OP BBBB
LogicFrameAFirst(d, inputA, inputB, name, result) ==
  LET d1 == LcdPrint(LcdPrint(LcdPrint(LcdPrint(LcdPrint(
              LcdSetCursor(d, 0, 0), BinaryDigits(inputA)), <<Blank>>), name),
              <<Blank>>), BinaryDigits(inputB))
      d2 == LcdPrint(d1, Spaces(2))
  IN LcdPrint(LcdPrint(LcdPrint(LcdPrint(LcdPrint(
       LcdSetCursor(d2, 0, 1), TxtDec), PrintNumber(result, 10)), TxtSpHex),
       PrintNumber(result, 16)), Spaces(2))

LogicFrame(d, inputA, inputB, name, result) ==
  LET d1 == LcdPrint(LcdPrint(LcdPrint(LcdPrint(LcdPrint(
              LcdSetCursor(d, 0, 0), BinaryDigits(inputB)), <<Blank>>), name),
              <<Blank>>), BinaryDigits(inputA))
      d2 == LcdPrint(d1, Spaces(2))
  IN LcdPrint(LcdPrint(LcdPrint(LcdPrint(LcdPrint(
       LcdSetCursor(d2, 0, 1), TxtDec), PrintNumber(result, 10)), TxtSpHex),
       PrintNumber(result, 16)), Spaces(2))

LogicGateMode ==
  /\ pc = "mode"
  /\ Dispatched(2)
  /\ sampled' = Ran(2)
  /\ LET inputA == SampleBits(switchLines, 0, 4)
         inputB == SampleBits(switchLines, 4, 4)
         t == GateIndex(potLevel)
         result == GateResult(t, inputA, inputB)
     IN /\ logicType' = t
        /\ leds' = ShiftOut(result)
        /\ \E name \in GateNames(t) :
             lcd' = LogicFrame(lcd, inputA, inputB, name, result)
  /\ pc' = "sleep"
  /\ wait' = LoopDelay
  /\ UNCHANGED <<now, uptime, sinceChange, currentMode, lastButtonState, lastDebounce, buttonPressed,
                 quizTarget, questionDisplayed, button, switchLines, potLevel,
                 sensorLevel, held, sinceEdge, lowFor, presses, evInCycle,
                 evInPress, pauses, draws, drawnAt>>

----------------------------------------------------------------------------
\* Mode 3: adcMode

\* Mutant: the reading shifted right by two bits
AdcMapShift(rawValue) == ToByte(rawValue \div 4)

AdcMap(rawValue) == ToByte(Map(rawValue, 0, AdcMax, 0, 255))

AdcFrame(d, mappedValue) ==
  LET d1 == LcdPrint(LcdPrint(LcdPrint(LcdSetCursor(d, 0, 0), TxtDec),
                              PrintNumber(mappedValue, 10)), Spaces(5))
  IN LcdPrint(LcdPrint(LcdPrint(LcdSetCursor(d1, 0, 1), TxtHex),
                       HexByte(mappedValue)), Spaces(8))

AdcMode ==
  /\ pc = "mode"
  /\ Dispatched(3)
  /\ sampled' = Ran(3)
  /\ LET mappedValue == AdcMap(sensorLevel)
     IN /\ leds' = ShiftOut(mappedValue)
        /\ lcd' = AdcFrame(lcd, mappedValue)
  /\ pc' = "sleep"
  /\ wait' = LoopDelay
  /\ UNCHANGED <<now, uptime, sinceChange, currentMode, lastButtonState, lastDebounce, buttonPressed,
                 quizTarget, questionDisplayed, button, switchLines, potLevel,
                 sensorLevel, logicType, held, sinceEdge, lowFor, presses,
                 evInCycle, evInPress, pauses, draws, drawnAt>>

----------------------------------------------------------------------------
\* The world outside the board

\* The level of the button line while `h` says whether the finger is down:
\* free while the contact bounces, LOW (pressed) or HIGH (released) after
Levels(h, since) ==
  IF since < MaxBounce THEN {LOW, HIGH}
  ELSE IF h THEN {LOW} ELSE {HIGH}

\* delay(): the clock advances by one step; finger and button line may change
\* at the end of the step
Elapse(h, level, limit) ==
  /\ pc \in {"sleep", "pause"}
  /\ wait > 0
  /\ LET step == Min(Quantum, wait)
         since == IF h # held THEN 0 ELSE Min(sinceEdge + step, MaxBounce)
     IN /\ uptime + step <= limit
        /\ level \in Levels(h, since)
        /\ now' = ULongAdd(now, step)
        /\ uptime' = uptime + step
        /\ sinceChange' = Min(sinceChange + step, ElapsedCap)
        /\ wait' = wait - step
        /\ pc' = IF wait - step > 0 THEN pc
                 ELSE IF pc = "sleep" THEN "switch" ELSE "resume"
        /\ held' = h
        /\ sinceEdge' = since
        /\ button' = level
        /\ lowFor' = IF level = LOW /\ button = LOW
                       THEN Min(lowFor + step, LowCap) ELSE 0
        /\ evInCycle' = IF h /\ ~held THEN 0 ELSE evInCycle
        /\ evInPress' = IF level = LOW /\ button = HIGH THEN 0 ELSE evInPress
  /\ UNCHANGED <<currentMode, lastButtonState, lastDebounce, buttonPressed,
                 quizTarget, questionDisplayed, lcd, leds, switchLines,
                 potLevel, sensorLevel, logicType, presses, pauses, draws,
                 drawnAt, sampled>>

\* The user sets the switches, the knob and the sensor while the loop
\* sleeps.  The lines are read only by the mode function of the next tick, so
\* the moment within the sleep does not matter: the model takes its start
Turn(sw, pot, sensor) ==
  /\ pc = "sleep"
  /\ wait = LoopDelay
  /\ switchLines' = LinesOf(sw)
  /\ potLevel' = pot
  /\ sensorLevel' = sensor
  /\ UNCHANGED <<pc, wait, now, uptime, sinceChange, currentMode, lastButtonState, lastDebounce,
                 buttonPressed, quizTarget, questionDisplayed, lcd, leds,
                 button, logicType, held, sinceEdge, lowFor, presses,
                 evInCycle, evInPress, pauses, draws, drawnAt, sampled>>

----------------------------------------------------------------------------
\* The state when setup() returns

Boot(sw, pot, sensor) ==
  /\ pc = "switch"
  /\ wait = 0
  /\ now = ULong(0)
  /\ uptime = 0
  /\ currentMode = 0
  /\ lastButtonState = HIGH
  /\ lastDebounce = ULong(0)
  /\ buttonPressed = FALSE
  /\ quizTarget = 0
  /\ questionDisplayed = FALSE
  /\ lcd = LcdPrint(LcdSetCursor(LcdClear(<<>>), 0, 0), TxtModeManual)
  /\ leds = 0
  /\ button = HIGH
  /\ switchLines = LinesOf(sw)
  /\ potLevel = pot
  /\ sensorLevel = sensor
  /\ logicType = 0
  /\ held = FALSE
  /\ sinceEdge = MaxBounce
  /\ lowFor = 0
  /\ presses = 0
  /\ evInCycle = 0
  /\ evInPress = 0
  /\ pauses = 0
  /\ draws = 0
  /\ drawnAt = 0
  /\ sampled = NoSample
  /\ sinceChange = 0

Init == Boot(0, 600, 512)

Environment ==
  \/ \E h \in BOOLEAN, level \in BOOLEAN : Elapse(h, level, MaxTime)
  \/ \E s \in Settings : Turn(s.sw, s.pot, s.sensor)

Loop ==
  \/ HandleModeSwitch
  \/ ManualMode
  \/ QuizMode
  \/ QuizResume
  \/ LogicGateMode
  \/ AdcMode

Next == Loop \/ Environment

Spec == Init /\ [][Next]_vars

----------------------------------------------------------------------------
\* SpecBench: the board powered up with every position of the switches, the
\* knob and the sensor, left untouched afterwards, while the mode button is
\* pressed on a fixed schedule that walks through the four modes: finger
\* down for two ticks, up for two ticks, without bounce.

BenchPots == {0, 255, 256, 600, 767, 768, AdcMax}

BenchInputs ==
  {[sw |-> v, pot |-> p, sensor |-> 512] : v \in 0..255, p \in BenchPots}
    \cup {[sw |-> 202, pot |-> p, sensor |-> 512] : p \in 0..AdcMax}
    \cup {[sw |-> 0, pot |-> 600, sensor |-> r] : r \in 0..AdcMax}

InitBench == \E i \in BenchInputs : Boot(i.sw, i.pot, i.sensor)

FingerDown(t) == (t \div LoopDelay) % 4 \in {1, 2}

BenchElapse ==
  LET h == FingerDown(uptime + Min(Quantum, wait))
  IN Elapse(h, IF h THEN LOW ELSE HIGH, BenchTime)

NextBench ==
  \/ HandleModeSwitch
  \/ ManualMode
  \/ QuizMode
  \/ LogicGateMode
  \/ AdcMode
  \/ BenchElapse

SpecBench == InitBench /\ [][NextBench]_vars

----------------------------------------------------------------------------
\* SpecQuiz: the board is taken into Quiz mode by one clean press and left
\* there; random(0, 256) ranges over every byte.  The switches stay where
\* they were at power-up.

QuizTime == 1500

QuizSwitches == {0, 202}

InitQuiz == \E sw \in QuizSwitches : Boot(sw, 600, 512)

OnePress(t) == t >= LoopDelay /\ t < 3 * LoopDelay

QuizElapse ==
  LET h == OnePress(uptime + Min(Quantum, wait))
  IN Elapse(h, IF h THEN LOW ELSE HIGH, QuizTime)

NextQuiz ==
  \/ HandleModeSwitch
  \/ ManualMode
  \/ QuizModeFrom(0..(ByteMod - 1))
  \/ QuizResume
  \/ QuizElapse

SpecQuiz == InitQuiz /\ [][NextQuiz]_vars

----------------------------------------------------------------------------
\* SpecTour: a longer session with a button that does not bounce.  The
\* finger goes down or up only at the instants the loop wakes, so that every
\* press is a whole number of ticks long; the inputs are free as in Spec.

TourTime == 2000

TourElapse ==
  \E h \in BOOLEAN :
    /\ h = held \/ (uptime + Min(Quantum, wait)) % LoopDelay = 0
    /\ Elapse(h, IF h THEN LOW ELSE HIGH, TourTime)

NextTour ==
  \/ Loop
  \/ TourElapse
  \/ \E s \in Settings : Turn(s.sw, s.pot, s.sensor)

SpecTour == Init /\ [][NextTour]_vars

----------------------------------------------------------------------------
\* SpecPress: the switches rest on 202, one of the quiz targets, and the
\* mode button is pressed and released at will, with bounce.  loop() never
\* stops and the clock never stands still: a delay that can go on goes on,
\* a handleModeSwitch, a mode function or the return from the pause that
\* is due is executed.

PressTime == 2700

InitPress == Boot(202, 600, 512)

PressElapse == \E h \in BOOLEAN, level \in BOOLEAN : Elapse(h, level, PressTime)

NextPress == Loop \/ PressElapse

\* Control is about to enter a mode function.  The step below has the
\* enabling condition of the four mode functions together and none of
\* their effects; it stands for them in the fairness condition only and is
\* no step of NextPress
ModeDue ==
  /\ pc = "mode"
  /\ pc' = "sleep"
  /\ UNCHANGED <<wait, now, uptime, sinceChange, currentMode, lastButtonState, lastDebounce,
                 buttonPressed, quizTarget, questionDisplayed, lcd, leds, button,
                 switchLines, potLevel, sensorLevel, logicType, held, sinceEdge,
                 lowFor, presses, evInCycle, evInPress, pauses, draws, drawnAt,
                 sampled>>

Due == PressElapse \/ HandleModeSwitch \/ QuizResume \/ ModeDue

SpecPress == InitPress /\ [][NextPress]_vars /\ WF_vars(Due)

----------------------------------------------------------------------------
\* SpecWrap: the board has idled until millis() is about to wrap.  With a
\* tick every 100 ms since 0 the ticks fall on the multiples of 100, and
\* 2^32 is 96 more than one of them: the session starts at one of the last
\* ticks before the wrap.  Either the button was never touched (Manual mode,
\* lastDebounce still 0), or it was pressed once right after power-up: Quiz
\* was entered at 200 ms with the target 5 drawn, the release was seen at
\* 300 ms, which is the value of lastDebounce, and the answer on the
\* switches, 202, has been judged Incorrect ever since.  From there on the
\* button is pressed and released at will.

WrapTime == 1300

WrapLeads == {96, 196}

BootDisplay == LcdPrint(LcdSetCursor(LcdClear(<<>>), 0, 0), TxtModeManual)

IdleSince(lead) ==
  /\ pc = "switch"
  /\ wait = 0
  /\ now = ULongSub(ULong(0), ULong(lead))
  /\ uptime = 0
  /\ lastButtonState = HIGH
  /\ buttonPressed = FALSE
  /\ leds = 202
  /\ button = HIGH
  /\ switchLines = LinesOf(202)
  /\ potLevel = 600
  /\ sensorLevel = 512
  /\ logicType = 0
  /\ held = FALSE
  /\ sinceEdge = MaxBounce
  /\ lowFor = 0
  /\ pauses = 0
  /\ sinceChange = ElapsedCap

NeverTouched ==
  /\ currentMode = 0
  /\ lastDebounce = ULong(0)
  /\ quizTarget = 0
  /\ questionDisplayed = FALSE
  /\ lcd = ManualFrame(BootDisplay, 202)
  /\ presses = 0 /\ evInCycle = 0 /\ evInPress = 0
  /\ draws = 0 /\ drawnAt = 0
  /\ sampled = [mode |-> 0, lines |-> LinesOf(202), pot |-> 600, sensor |-> 512]

PressedOnce ==
  /\ currentMode = 1
  /\ lastDebounce = ULong(3 * LoopDelay)
  /\ quizTarget = 5
  /\ questionDisplayed = TRUE
  /\ lcd = IncorrectFrame(QuestionFrame(ShowBanner(ManualFrame(BootDisplay, 202), 1), 5))
  /\ presses = 1 /\ evInCycle = 1 /\ evInPress = 1
  /\ draws = 1 /\ drawnAt = 1
  /\ sampled = [mode |-> 1, lines |-> LinesOf(202), pot |-> 600, sensor |-> 512]

InitWrap ==
  \E lead \in WrapLeads : IdleSince(lead) /\ (NeverTouched \/ PressedOnce)

WrapElapse == \E h \in BOOLEAN, level \in BOOLEAN : Elapse(h, level, WrapTime)

NextWrap == Loop \/ WrapElapse

SpecWrap == InitWrap /\ [][NextWrap]_vars

----------------------------------------------------------------------------
\* Vocabulary of the properties

\* The unsigned value of the switch lines: line i actuated (LOW) weighs 2^i
Weight(lines, i, w) == IF lines[i] = LOW THEN w ELSE 0

VectorOf(lines) ==
  Weight(lines, 0, 1) + Weight(lines, 1, 2) + Weight(lines, 2, 4)
    + Weight(lines, 3, 8) + Weight(lines, 4, 16) + Weight(lines, 5, 32)
    + Weight(lines, 6, 64) + Weight(lines, 7, 128)

Pad(text) == text \o Spaces(LcdCols - Len(text))

StartsWith(row, text) == SubSeq(row, 1, Len(text)) = text

IsDigit(c, base) == \E i \in 1..base : DigitChars[i] = c

DigitValue(c) == (CHOOSE i \in 1..16 : DigitChars[i] = c) - 1

\* a mode function has just returned and the loop has entered delay(100)
TickDone(m) == pc = "sleep" /\ wait = LoopDelay /\ currentMode = m

ModeCycle == {<<0, 1>>, <<1, 2>>, <<2, 3>>, <<3, 0>>}

TruthTable(t, a, b) ==
  CASE t = GATE_AND -> IF a = 1 /\ b = 1 THEN 1 ELSE 0
    [] t = GATE_OR -> IF a = 1 \/ b = 1 THEN 1 ELSE 0
    [] t = GATE_XOR -> IF a # b THEN 1 ELSE 0
    [] t = GATE_XNOR -> IF a = b THEN 1 ELSE 0

ExampleResults == <<8, 14, 6, 9>>

\* the row reads DEC: and the decimal digits of n, no leading zero, then a
\* character that is not a digit
ShowsDec(row, n) ==
  /\ StartsWith(row, TxtDec)
  /\ \E k \in 1..3 :
       /\ \A j \in 1..k : IsDigit(row[4 + j], 10)
       /\ ~IsDigit(row[5 + k], 10)
       /\ k > 1 => row[5] # "0"
       /\ n = IF k = 1 THEN DigitValue(row[5])
              ELSE IF k = 2 THEN 10 * DigitValue(row[5]) + DigitValue(row[6])
              ELSE 100 * DigitValue(row[5]) + 10 * DigitValue(row[6])
                     + DigitValue(row[7])

\* the row reads HEX:0x and exactly two hexadecimal digits that spell n
ShowsHex(row, n) ==
  /\ StartsWith(row, TxtHex)
  /\ IsDigit(row[7], 16) /\ IsDigit(row[8], 16) /\ ~IsDigit(row[9], 16)
  /\ n = 16 * DigitValue(row[7]) + DigitValue(row[8])

\* every cell of the row from column `from` (counted from 1) on is blank
BlankFrom(row, from) == \A j \in from..LcdCols : row[j] = Blank

\* handleModeSwitch is about to run for the first time since a success
\* pause: quizMode ran last and left no question displayed
AfterPause == pc = "switch" /\ sampled.mode = 1 /\ ~questionDisplayed

\* while the pause lasts nothing of the mode switch moves
PauseIsBlind ==
  [][(pc = "pause" \/ pc = "resume") =>
       /\ currentMode' = currentMode /\ presses' = presses
       /\ lastButtonState' = lastButtonState
       /\ lastDebounce' = lastDebounce /\ buttonPressed' = buttonPressed]_vars

\* the names of the four gates as the display spells them
GateSpelling ==
  << <<"A", "N", "D">>, <<"O", "R">>, <<"X", "O", "R">>, <<"X", "N", "O", "R">> >>

\* a value 0..15 in decimal
Dec15(r) == IF r < 10 THEN <<DigitChars[r + 1]>> ELSE <<"1", DigitChars[r - 9]>>

\* 1 for a line that reads LOW
LineBit(lines, i) == IF lines[i] = LOW THEN 1 ELSE 0

\* millis() - lastDebounce as handleModeSwitch computes it
Elapsed == ULongSub(now, lastDebounce)

\* a confirmed press comes from two pressed samples in a row, on an open
\* latch, more than 50 ms after the reading last changed
NoSpuriousPress ==
  [][presses' # presses =>
       /\ lastButtonState = LOW /\ button = LOW /\ ~buttonPressed
       /\ sinceChange > debounceDelay]_vars

\* the second of two pressed samples in a row is confirmed if the latch is
\* open
NoLostPress ==
  [][(pc = "switch" /\ ~buttonPressed /\ lastButtonState = LOW /\ button = LOW) =>
       presses' = presses + 1]_vars

\* cells from..from+3 of the row spell lines hi..hi-3 as binary digits, a
\* line reading LOW as 1
SpellsLines(row, from, lines, hi) ==
  \A j \in 0..3 : row[from + j] = IF lines[hi - j] = LOW THEN "1" ELSE "0"

\* the Quiz tick that finds no question on the display / one on the display
AskTick == pc = "mode" /\ currentMode = 1 /\ ~questionDisplayed

JudgeTick == pc = "mode" /\ currentMode = 1 /\ questionDisplayed

----------------------------------------------------------------------------
\* C1: starting from Manual, after N confirmed presses the mode is N mod 4,
\* and each confirmed press moves the mode one step along
\* Manual -> Quiz -> LogicGate -> Adc -> Manual.
C1_ModeCycle ==
  /\ [](currentMode = presses % 4)
  /\ [][presses' # presses =>
          /\ presses' = presses + 1
          /\ <<currentMode, currentMode'>> \in ModeCycle]_vars

\* four confirmed presses have brought the mode back to Manual
C1_Witness == presses = 4 /\ currentMode = 0

\* C2: handleModeSwitch emits a confirmed press if and only if the button
\* line has been LOW without a break for longer than the debounce window, and
\* exactly once for such a press: an event implies a line LOW for more than
\* 50 ms; a line released after more than 50 ms LOW has had its event; no
\* press has two events.
C2_EdgeEquivalence ==
  [][/\ presses' # presses => lowFor > debounceDelay
     /\ (button = LOW /\ button' = HIGH
           /\ lowFor + (uptime' - uptime) > debounceDelay) => evInPress >= 1
     /\ evInPress' <= 1]_vars

\* C3: at most one confirmed press per cycle of the finger going down and up
\* again, whatever the line does while the contact bounces, also when the
\* success pause of the quiz lengthens a tick.
C3_OnePerCycle == evInCycle <= 1

\* the finger has stayed down from a confirmed press through a success pause
C3_Witness == held /\ evInCycle = 1 /\ pauses = 1 /\ pc = "sleep"

\* C4: no confirmed press (and no change of mode) unless the button line has
\* been LOW without a break for at least the debounce window.
C4_NoiseRejection ==
  [][(presses' # presses \/ currentMode' # currentMode)
        => lowFor >= debounceDelay]_vars

\* C5: the mode changes only in handleModeSwitch and only with a confirmed
\* press; no mode function, and not the end of the success pause, changes it.
C5_ModeFrame ==
  [][/\ currentMode' # currentMode => pc = "switch" /\ presses' = presses + 1
     /\ presses' = presses => currentMode' = currentMode
     /\ pc \in {"mode", "resume"} => currentMode' = currentMode]_vars

\* the quiz has gone through its success path and the mode is still Quiz
C5_Witness == presses = 1 /\ currentMode = 1 /\ pauses = 1 /\ ~questionDisplayed

\* C6: for every selector reading the gate index is floor(v*4/1024) clamped
\* to 0..3, so always one of the four gates, and the name on the display is
\* one of the four names.
C6_GateQuantization ==
  TickDone(2) =>
    /\ logicType = Min((potLevel * 4) \div 1024, 3)
    /\ logicType \in 0..3
    /\ \E g \in 1..4 :
         SubSeq(Row(lcd, 0), 6, 6 + Len(logicNames[g])) = logicNames[g] \o <<Blank>>

\* C7: the byte pushed in Logic-Gate mode is the selected gate applied bit by
\* bit to A = switches 0-3 and B = switches 4-7, with the upper four bits
\* zero; A = 1010, B = 1100 gives 1000, 1110, 0110, 1001.
C7_GateResult ==
  TickDone(2) =>
    LET v == VectorOf(switchLines)
        a == v % 16
        b == v \div 16
    IN /\ leds \in 0..15
       /\ logicType \in 0..3 =>
            /\ \A i \in 0..3 :
                 Bit(leds, i) = TruthTable(logicType, Bit(a, i), Bit(b, i))
            /\ (a = 10 /\ b = 12) => leds = ExampleResults[logicType + 1]

\* XNOR of 1010 and 1100 is on the LEDs
C7_Witness ==
  TickDone(2) /\ VectorOf(switchLines) = 202 /\ logicType = GATE_XNOR /\ leds = 9

C9_CleanDisplay ==
  /\ TickDone(0) =>
       /\ Row(lcd, 0) = Pad(TxtDec \o PrintNumber(leds, 10))
       /\ Row(lcd, 1) = Pad(TxtHex \o HexByte(leds))
  /\ TickDone(3) =>
       /\ Row(lcd, 0) = Pad(TxtDec \o PrintNumber(leds, 10))
       /\ Row(lcd, 1) = Pad(TxtHex \o HexByte(leds))
  /\ (TickDone(2) /\ logicType \in 0..3) =>
       /\ Row(lcd, 0) =
            Pad(BinaryDigits(VectorOf(switchLines) \div 16) \o <<Blank>>
                  \o logicNames[logicType + 1] \o <<Blank>>
                  \o BinaryDigits(VectorOf(switchLines) % 16))
       /\ Row(lcd, 1) =
            Pad(TxtDec \o PrintNumber(leds, 10) \o TxtSpHex \o PrintNumber(leds, 16))

\* C10: a Quiz tick with a question shown and the switches equal to the
\* target shows "Correct!" and begins one 1-second pause; the end of the
\* pause sets NeedsTarget; the next Quiz tick draws one target in 0..255 and
\* shows it; there is one pause per target drawn and one draw per pause or
\* entry into the mode.
C10_QuizSuccess ==
  /\ [](pauses <= draws /\ draws <= presses + pauses)
  /\ [](pc = "pause" => wait <= SuccessPause /\ questionDisplayed)
  /\ [][/\ (pc = "mode" /\ currentMode = 1 /\ questionDisplayed
              /\ VectorOf(switchLines) = quizTarget)
             => /\ pc' = "pause" /\ wait' = SuccessPause
                /\ pauses' = pauses + 1 /\ draws' = draws
                /\ Row(lcd', 0) = Pad(TxtCorrect)
        /\ pauses' # pauses
             => /\ pc = "mode" /\ currentMode = 1 /\ questionDisplayed
                /\ VectorOf(switchLines) = quizTarget
        /\ pc = "resume"
             => /\ ~questionDisplayed' /\ pc' = "sleep"
                /\ pauses' = pauses /\ draws' = draws
        /\ (pc = "mode" /\ currentMode = 1 /\ ~questionDisplayed)
             => /\ draws' = draws + 1 /\ pauses' = pauses
                /\ quizTarget' \in 0..255 /\ questionDisplayed'
                /\ pc' = "sleep"
        /\ draws' # draws
             => pc = "mode" /\ currentMode = 1 /\ ~questionDisplayed]_vars

\* after one success the next tick has drawn the second target
C10_Witness ==
  /\ currentMode = 1 /\ presses = 1 /\ pauses = 1 /\ draws = 2
  /\ questionDisplayed /\ pc = "sleep"

----------------------------------------------------------------------------
\* C11: a Quiz tick that finds no question on the display draws a target in
\* 0..255, shows it as DEC:<target> on row 0 and HEX:0x<two digits> on row 1
\* with nothing else on the display, marks the question as displayed and
\* returns into the inter-tick delay: the LEDs keep their byte, and neither
\* feedback nor the success pause follows in that tick.
C11_QuizAsk ==
  [][AskTick =>
       /\ quizTarget' \in 0..255
       /\ ShowsDec(Row(lcd', 0), quizTarget')
       /\ ShowsHex(Row(lcd', 1), quizTarget')
       /\ BlankFrom(Row(lcd', 0), 9) /\ BlankFrom(Row(lcd', 1), 9)
       /\ questionDisplayed'
       /\ leds' = leds
       /\ pauses' = pauses
       /\ pc' = "sleep" /\ wait' = LoopDelay]_vars

\* the target drawn equals the switches, one digit in hex, and was not judged
C11_Witness ==
  /\ TickDone(1) /\ questionDisplayed /\ draws = 1 /\ pauses = 0
  /\ quizTarget = 0 /\ VectorOf(switchLines) = 0
  /\ StartsWith(Row(lcd, 1), TxtHex \o <<"0", "0", " ">>)

\* C12: a Quiz tick that finds a question on the display and switches that
\* differ from the target leaves row 1 reading Incorrect followed by blanks
\* only, so that nothing of HEX:0x.. remains, and row 0 still reading
\* DEC:<target>; the target and the displayed-question flag are unchanged
\* and the tick goes into the ordinary inter-tick delay, not the pause.
C12_QuizMismatch ==
  [][(JudgeTick /\ VectorOf(switchLines) # quizTarget) =>
       /\ Row(lcd', 1) = Pad(<<"I", "n", "c", "o", "r", "r", "e", "c", "t">>)
       /\ ShowsDec(Row(lcd', 0), quizTarget)
       /\ BlankFrom(Row(lcd', 0), 9)
       /\ quizTarget' = quizTarget
       /\ questionDisplayed'
       /\ pauses' = pauses
       /\ pc' = "sleep" /\ wait' = LoopDelay]_vars

\* a wrong answer to the widest question, DEC:255 over HEX:0xFF
C12_Witness ==
  /\ TickDone(1) /\ questionDisplayed /\ quizTarget = 255
  /\ VectorOf(switchLines) = 202 /\ leds = 202
  /\ StartsWith(Row(lcd, 1), <<"I", "n", "c", "o", "r", "r", "e", "c", "t", " ">>)
  /\ StartsWith(Row(lcd, 0), TxtDec \o <<"2", "5", "5", " ">>)

\* C13: every confirmed press clears the displayed-question flag, the flag
\* is set in Quiz mode only, the first Quiz tick of each visit to Quiz draws
\* a target and judges nothing, and a target that is compared with the
\* switches was drawn during the present visit: no press lies between its
\* draw and its comparison.
C13_FreshTarget ==
  /\ [][presses' # presses => ~questionDisplayed']_vars
  /\ [](questionDisplayed => currentMode = 1)
  /\ [][(pc = "mode" /\ currentMode = 1 /\ sampled.mode # 1) =>
          /\ draws' = draws + 1 /\ drawnAt' = presses
          /\ pauses' = pauses /\ leds' = leds]_vars
  /\ [](JudgeTick => drawnAt = presses)

\* Quiz was left with its question unanswered and entered again four
\* presses later: the second visit has drawn its own target
C13_Witness ==
  /\ TickDone(1) /\ presses = 5 /\ pauses = 0
  /\ draws = 2 /\ drawnAt = 5 /\ questionDisplayed

\* C14: the display names the active mode.  Before the first confirmed
\* press row 0 starts with Mode: Manual; and in a tick whose
\* handleModeSwitch has put a banner on the display (the banner of the
\* current mode is on row 0 when the mode function is about to run), row 0
\* still starts with that banner when the tick goes into its delay.
C14_BannerShown ==
  /\ [](presses = 0 => StartsWith(Row(lcd, 0), TxtModeManual))
  /\ [][(pc = "mode" /\ StartsWith(Row(lcd, 0), ModeBanner(currentMode))) =>
          StartsWith(Row(lcd', 0), ModeBanner(currentMode))]_vars

\* C15: in Quiz mode the answer is checked by pressing the mode button.  A
\* confirmed press while a question is displayed keeps the board in Quiz
\* mode with that question, to be judged; and a Quiz tick that sampled the
\* button released shows no feedback and begins no pause.
C15_CheckOnPress ==
  /\ [][(pc = "switch" /\ currentMode = 1 /\ questionDisplayed
           /\ presses' # presses) =>
          /\ currentMode' = 1
          /\ questionDisplayed'
          /\ quizTarget' = quizTarget]_vars
  /\ [][(JudgeTick /\ lastButtonState = HIGH) =>
          /\ lcd'.cells = lcd.cells
          /\ pauses' = pauses]_vars

\* C16: after an ADC tick the byte on the LEDs is floor(raw * 255 / 1023)
\* of the sensor reading raw: within 0..255, 0 for 0, 255 for 1023, 127 for
\* 512, and not above the byte of the next higher reading; row 0 shows it
\* in decimal and row 1 as HEX:0x with exactly two digits.
C16_AdcMapping ==
  TickDone(3) =>
    /\ leds = (sensorLevel * 255) \div 1023
    /\ leds \in 0..255
    /\ sensorLevel = 0 => leds = 0
    /\ sensorLevel = 1023 => leds = 255
    /\ sensorLevel = 512 => leds = 127
    /\ sensorLevel < 1023 => leds <= AdcMap(sensorLevel + 1)
    /\ ShowsDec(Row(lcd, 0), leds)
    /\ ShowsHex(Row(lcd, 1), leds)

\* the middle of the scale comes out as 127, 0x7F
C16_Witness ==
  /\ TickDone(3) /\ sensorLevel = 512 /\ leds = 127
  /\ StartsWith(Row(lcd, 1), TxtHex \o <<"7", "F", " ">>)

\* C17: when a Manual, Logic-Gate or ADC tick follows a tick of the same
\* mode and meets the same switch lines, selector and sensor reading, it
\* leaves every cell of both display rows and the byte on the LEDs as the
\* earlier tick left them.
C17_Idempotence ==
  [][(pc = "mode" /\ currentMode \in {0, 2, 3} /\ sampled = Ran(currentMode)) =>
       /\ lcd'.cells = lcd.cells
       /\ leds' = leds]_vars

C19_Scheduler ==
  /\ [][pc = "switch" => pc' = "mode"]_vars
  /\ [][pc' = "mode" => pc = "switch"]_vars
  /\ [][pc = "mode" =>
          /\ sampled'.mode = currentMode
          /\ currentMode' = currentMode
          /\ pc' \in {"sleep", "pause"}]_vars
  /\ [][sampled' # sampled => pc = "mode"]_vars
  /\ [][presses' # presses =>
          /\ pc = "switch"
          /\ leds' = leds
          /\ Row(lcd', 0) = Pad(ModeBanner(currentMode'))
          /\ Row(lcd', 1) = BlankRow]_vars

\* the pass that confirmed the first press ran quizMode: the question is on
\* the display, unjudged, and the LEDs still carry Manual's last byte
C19_Witness ==
  /\ TickDone(1) /\ presses = 1 /\ sampled.mode = 1 /\ draws = 1
  /\ leds = 202 /\ VectorOf(sampled.lines) = 202
  /\ StartsWith(Row(lcd, 1), TxtHex)

\* C20 as stated: during the success pause the button is not sampled and
\* the mode does not change, and the first tick after the pause confirms
\* nothing: neither a press that came and went during the pause nor one
\* that is still held, which can be confirmed in the second tick at the
\* earliest.
C20_PauseBlocks ==
  /\ PauseIsBlind
  /\ [][AfterPause => presses' = presses]_vars

\* C20 amended: during the success pause the button is not sampled and the
\* mode does not change.  The first tick after the pause confirms nothing
\* when the last sample before the pause was HIGH or the button reads HIGH
\* now; but when the tick that began the pause had sampled the button LOW
\* and it reads LOW again, with the latch open, the press is confirmed in
\* the first tick after the pause.
C20_PauseBlocksUnlessLow ==
  /\ PauseIsBlind
  /\ [][(AfterPause /\ (lastButtonState = HIGH \/ button = HIGH)) =>
          presses' = presses]_vars
  /\ [][(AfterPause /\ lastButtonState = LOW /\ button = LOW /\ ~buttonPressed) =>
          /\ presses' = presses + 1
          /\ currentMode' = 2]_vars

\* the first handleModeSwitch after the pause has confirmed a press: the
\* board is in Logic-Gate mode although quizMode has drawn no new target
C20_Witness ==
  /\ pc = "mode" /\ currentMode = 2 /\ sampled.mode = 1
  /\ presses = 2 /\ pauses = 1 /\ draws = 1
  /\ held /\ button = LOW /\ evInCycle = 1

C22_LatchRearm ==
  /\ [][presses' # presses => (~buttonPressed /\ buttonPressed')]_vars
  /\ [][buttonPressed => (presses' = presses /\ currentMode' = currentMode)]_vars
  /\ [][(buttonPressed /\ ~buttonPressed') =>
          /\ pc = "switch"
          /\ button = HIGH /\ lastButtonState = HIGH
          /\ ULongGreater(ULongSub(now, lastDebounce), debounceDelay)]_vars
  /\ [][(pc = "switch" /\ buttonPressed /\ lastButtonState = LOW /\ button = HIGH) =>
          buttonPressed']_vars

\* the press was confirmed at 200 ms, the sample at 300 ms was released,
\* the sample at 400 ms is pressed again: the latch is still set and the
\* mode has advanced once
C22_Witness ==
  /\ pc = "mode" /\ uptime = 4 * LoopDelay
  /\ lastButtonState = LOW /\ lastDebounce = now
  /\ buttonPressed /\ presses = 1 /\ currentMode = 1

\* C23: with the latch open, a tick whose previous sample was released
\* confirms nothing, whatever it samples; a tick whose previous sample was
\* pressed and which samples pressed again advances the mode by one and
\* sets the latch; with the latch set a pressed sample advances nothing.
\* Hence a finger that goes down on an open latch after a released sample,
\* early enough for two more ticks and a success pause to fit into the
\* session, is followed by its one confirmed press unless it is lifted.
C23_BoundedResponse ==
  /\ [][(pc = "switch" /\ ~buttonPressed /\ lastButtonState = HIGH) =>
          (presses' = presses /\ currentMode' = currentMode)]_vars
  /\ [][(pc = "switch" /\ ~buttonPressed /\ lastButtonState = LOW /\ button = LOW) =>
          /\ presses' = presses + 1
          /\ currentMode' = (currentMode + 1) % 4
          /\ buttonPressed']_vars
  /\ [][(pc = "switch" /\ buttonPressed /\ button = LOW) =>
          (presses' = presses /\ currentMode' = currentMode /\ buttonPressed')]_vars
  /\ [](evInCycle <= 1)
  /\ [](( /\ held /\ evInCycle = 0 /\ ~buttonPressed /\ lastButtonState = HIGH
          /\ uptime + SuccessPause + 3 * LoopDelay <= PressTime)
          => <>(~held \/ evInCycle = 1))

\* the finger has been down for four samples: confirmed by the second, no
\* further advance by the third and fourth
C23_Witness ==
  /\ pc = "mode" /\ uptime = 4 * LoopDelay /\ held /\ evInCycle = 1
  /\ lastButtonState = LOW /\ lastDebounce # now /\ buttonPressed
  /\ presses = 1 /\ currentMode = 1 /\ draws = 1 /\ questionDisplayed

\* C24: in every state, between ticks and within them, currentMode is one
\* of 0, 1, 2, 3, quizTarget is a byte, and a question is marked as
\* displayed in Quiz mode only.
C24_StateInvariant ==
  /\ currentMode \in {0, 1, 2, 3}
  /\ quizTarget \in 0..255
  /\ questionDisplayed => currentMode = 1

\* Quiz was left for Logic-Gate mode with its question unanswered: the
\* target is still in quizTarget, the flag is gone
C24_Witness ==
  /\ TickDone(2) /\ presses = 2 /\ draws = 1 /\ pauses = 0
  /\ quizTarget = 202 /\ ~questionDisplayed

\* C25 as stated: across a wrap of millis() the difference
\* millis() - lastDebounce is the time since the reading last changed (it
\* exceeds 50 ms exactly when that time does), no press is confirmed that
\* two pressed samples in a row do not warrant, and none that they warrant
\* is lost.
C25_WrapAround ==
  /\ [](ULongGreater(Elapsed, debounceDelay) <=> sinceChange > debounceDelay)
  /\ NoSpuriousPress
  /\ NoLostPress

\* C25 amended: a change of the reading seen less than 200 ms ago is
\* timed exactly by millis() - lastDebounce, before, across and after the
\* wrap; a difference that says 50 ms or less although the reading has not
\* changed for longer occurs only after the wrap, with lastDebounce a whole
\* counter period back, and while it lasts no pressed sample pair is
\* waiting and the latch is open; no press is confirmed that two pressed
\* samples in a row do not warrant, and none that they warrant is lost.
C25_WrapAroundRecent ==
  /\ [](sinceChange < ElapsedCap => Elapsed = ULong(sinceChange))
  /\ []((sinceChange > debounceDelay /\ ~ULongGreater(Elapsed, debounceDelay)) =>
          /\ sinceChange = ElapsedCap /\ now.hi = 0 /\ lastDebounce.hi = 0
          /\ ~buttonPressed /\ lastButtonState = HIGH)
  /\ NoSpuriousPress
  /\ NoLostPress

\* the button went down before the wrap and was confirmed after it
C25_Witness ==
  /\ pc = "mode" /\ presses = 1 /\ currentMode = 1 /\ buttonPressed
  /\ now.hi = 0 /\ lastDebounce.hi = HalfMod - 1
  /\ Elapsed = ULong(LoopDelay)

====
